---- MODULE Spec2Model ----
(***************************************************************************)
(* Model of amy-gba (src/main.rs): the start-up sequence, the vblank       *)
(* synchronised main loop that moves a reticle sprite over a Mode3 bitmap  *)
(* and stamps pixels, and the interrupt handler that acknowledges vblank.  *)
(***************************************************************************)
EXTENDS Integers, FiniteSets, Sequences, TLC

VARIABLES
    pc,              \* position of main(): a start-up line, or a point of the loop
    point,           \* `point` of main (line 73), NoPoint before it is bound
    dispcnt,         \* the values written to DISPCNT so far, oldest first
    palram,          \* object palette RAM: index -> colour name, "unset" where unwritten
    reticle_tile,    \* TRUE once draw_reticle wrote tile 1 of character block 5
    fb_writes,       \* framebuffer writes issued since main last entered the wait
    handler,         \* the installed interrupt handler ("none" at reset)
    dispstat_irq,    \* DISPSTAT vblank_irq_enable
    IE,              \* interrupt enable register, a set of interrupt bits
    REG_IF,          \* IF, the interrupt request register, a set of interrupt bits
    BIOS_IF,         \* BIOS interrupt flags word, a set of interrupt bits
    IME,             \* interrupt master enable
    irq_flags,       \* argument of the last irq_handler call
    oam,             \* object attribute memory: written slot -> attributes
    overflow_checks, \* whether the build panics on integer overflow
    vblanks,         \* vblank starts since the wait was last entered (capped)
    prev_vblanks,    \* vblank starts between the last two entries to the wait
    last,            \* arm taken by the last iteration: Accepted, or Undone(offset)
    run              \* ticks so far while every tick sampled (+1, 0); -1 once broken

vars == << pc, point, dispcnt, palram, reticle_tile, fb_writes, handler,
           dispstat_irq, IE, REG_IF, BIOS_IF, IME, irq_flags, oam,
           overflow_checks, vblanks, prev_vblanks, last, run >>

hw_irq  == << handler, dispstat_irq, IE, IME >>
video   == << dispcnt, palram, reticle_tile >>

(***************************************************************************)
(* Program constants.                                                      *)
(***************************************************************************)
WIDTH       == 240     \* Mode3::WIDTH
HEIGHT      == 160     \* Mode3::HEIGHT
RETICLE_OFF == 3       \* the bias subtracted in move_reticle
TILE_ID     == 514     \* with_tile_id(514)
U16         == 65536   \* width of the u16 arguments of move_reticle
ROW_MOD     == 256     \* OBJAttr0 row coordinate: 8 bits
COL_MOD     == 512     \* OBJAttr1 column coordinate: 9 bits

(***************************************************************************)
(* Bounds of the model.                                                    *)
(***************************************************************************)
MaxVBlanks == 3        \* vblank starts counted per wait
MaxRun     == 121      \* longest all-right prefix of ticks that is tracked

NoPoint == << >>

\* values of `last`
NoTick      == << >>
Accepted    == << "accepted" >>
Undone(d)   == << "undone", d[1], d[2] >>
VBLANK  == "vblank"
HBLANK  == "hblank"    \* interrupt sources the program never enables
GAMEPAK == "gamepak"
IrqBits == { VBLANK, HBLANK, GAMEPAK }

TriBool == { -1, 0, 1 }        \* x_tribool() / y_tribool() as i32
KeyInput == [ x : TriBool, y : TriBool, a : BOOLEAN ]

(***************************************************************************)
(* Point arithmetic and the bounds test of the loop body.                  *)
(***************************************************************************)
\* variant: the division by two forgotten
InitialPoint_undivided == << WIDTH, HEIGHT >>

\* Point::try_from((WIDTH, HEIGHT)).unwrap() / 2
InitialPoint == << WIDTH \div 2, HEIGHT \div 2 >>

\* variant: the two axes swapped
Offset_swapped(input) == << input.y, input.x >>

\* Point::new(input.x_tribool() as i32, input.y_tribool() as i32)
Offset(input) == << input.x, input.y >>

\* point += offset
PointAdd(p, d) == << p[1] + d[1], p[2] + d[2] >>

\* variant: the undo adds the offset again
PointSub_adds(p, d) == PointAdd(p, d)

\* point -= offset
PointSub(p, d) == << p[1] - d[1], p[2] - d[2] >>

\* point.try_into(): Result<(u32, u32), _>, an error for a negative coordinate
TryInto(p) == IF p[1] < 0 \/ p[2] < 0 THEN "Err" ELSE p

\* variant: inclusive ranges 0..=WIDTH, 0..=HEIGHT
Matches_inclusive(r) == /\ r # "Err"
                        /\ r[1] >= 0 /\ r[1] <= WIDTH
                        /\ r[2] >= 0 /\ r[2] <= HEIGHT

\* the pattern Ok((x @ 0..WIDTH, y @ 0..HEIGHT)), ranges exclusive of their end
Matches(r) == /\ r # "Err"
              /\ r[1] >= 0 /\ r[1] < WIDTH
              /\ r[2] >= 0 /\ r[2] < HEIGHT

(***************************************************************************)
(* move_reticle(x, y): the record written to OAM slot 0.  x - 3 and y - 3  *)
(* are u16 subtractions: below zero they panic in a build with overflow    *)
(* checks and wrap modulo 2^16 in a build without; the attribute setters   *)
(* keep the low 8 (row) and 9 (column) bits.                               *)
(***************************************************************************)
Underflows(x, y) == y - RETICLE_OFF < 0 \/ x - RETICLE_OFF < 0

ReticleAttributes(x, y) ==
    [ row     |-> ((y - RETICLE_OFF) % U16) % ROW_MOD,
      col     |-> ((x - RETICLE_OFF) % U16) % COL_MOD,
      is_8bpp |-> TRUE,
      tile_id |-> TILE_ID ]

\* the slot index passed to write_obj_attributes
RETICLE_SLOT == 0

\* the colour of the pixel, Bgr555::BLUE
PIXEL_COLOUR == "BLUE"

\* Pixel(Point::new(x, y), Bgr555::BLUE).draw(&mut display): GbaDisplay writes
\* the colour into the framebuffer at that coordinate, one write
DrawPixel(x, y) == << [ op |-> "pixel", x |-> x, y |-> y, colour |-> PIXEL_COLOUR ] >>

(***************************************************************************)
(* irq_handler(flags): the registers after the handler returns.  IF is     *)
(* acknowledged by writing ones: a write clears the bits it carries.       *)
(***************************************************************************)
\* variant: the write to IF left out
irq_handler_no_if_ack(flags, regs) ==
    IF VBLANK \in flags
    THEN [ regs EXCEPT !.BIOS_IF = regs.BIOS_IF \cup { VBLANK } ]
    ELSE regs

irq_handler(flags, regs) ==
    IF VBLANK \in flags
    THEN [ BIOS_IF |-> regs.BIOS_IF \cup { VBLANK },
           REG_IF  |-> regs.REG_IF \ (regs.REG_IF \cup { VBLANK }) ]
    ELSE regs

\* an interrupt is taken before the next instruction of main
IrqPending == IME /\ handler = "irq_handler" /\ (IE \cap REG_IF) # {}

(***************************************************************************)
(* The state at entry to main().                                           *)
(***************************************************************************)
Init ==
    /\ pc = "dispcnt"
    /\ point = NoPoint
    /\ dispcnt = << >>
    /\ palram = [ i \in 0..8 |-> "unset" ]
    /\ reticle_tile = FALSE
    /\ fb_writes = << >>
    /\ handler = "none"
    /\ dispstat_irq = FALSE
    /\ IE = {}
    /\ REG_IF = {}
    /\ BIOS_IF = {}
    /\ IME = FALSE
    /\ irq_flags = {}
    /\ oam = << >>
    /\ overflow_checks \in BOOLEAN
    /\ vblanks = 0
    /\ prev_vblanks = 0
    /\ last = NoTick
    /\ run = 0

irq_regs == << REG_IF, BIOS_IF, irq_flags, vblanks, prev_vblanks >>
cursor   == << point, oam, last, run >>

\* a start-up line of main that only moves to the next line
Goto(from, to) == pc = from /\ ~IrqPending /\ pc' = to

(***************************************************************************)
(* Start-up, lines 44-76, one action per statement.                        *)
(***************************************************************************)
\* variant: the display set up without forced blanking
SetUpDisplay_unblanked ==
    /\ Goto("dispcnt", "register_palette")
    /\ dispcnt' = Append(dispcnt, [ mode |-> "Mode3", bg2 |-> TRUE, obj |-> TRUE,
                                     oam_memory_1d |-> TRUE, force_vblank |-> FALSE ])
    /\ UNCHANGED << palram, reticle_tile, fb_writes, hw_irq, irq_regs, cursor,
                    overflow_checks >>

\* DISPCNT.write(DisplayControlSetting::new()...with_force_vblank(true))
SetUpDisplay ==
    /\ Goto("dispcnt", "register_palette")
    /\ dispcnt' = Append(dispcnt, [ mode |-> "Mode3", bg2 |-> TRUE, obj |-> TRUE,
                                     oam_memory_1d |-> TRUE, force_vblank |-> TRUE ])
    /\ UNCHANGED << palram, reticle_tile, fb_writes, hw_irq, irq_regs, cursor,
                    overflow_checks >>

\* variant: the colours written from index 0 on
register_palette_from_zero ==
    /\ Goto("register_palette", "draw_reticle")
    /\ palram' = [ palram EXCEPT ![0] = "BLACK", ![1] = "RED", ![2] = "GREEN",
                                 ![3] = "BLUE", ![4] = "YELLOW", ![5] = "MAGENTA",
                                 ![6] = "CYAN", ![7] = "WHITE" ]
    /\ UNCHANGED << dispcnt, reticle_tile, fb_writes, hw_irq, irq_regs, cursor,
                    overflow_checks >>

\* register_palette(): index_palram_obj_8bpp(1..8).write(...)
register_palette ==
    /\ Goto("register_palette", "draw_reticle")
    /\ palram' = [ palram EXCEPT ![1] = "BLACK", ![2] = "RED", ![3] = "GREEN",
                                 ![4] = "BLUE", ![5] = "YELLOW", ![6] = "MAGENTA",
                                 ![7] = "CYAN", ![8] = "WHITE" ]
    /\ UNCHANGED << dispcnt, reticle_tile, fb_writes, hw_irq, irq_regs, cursor,
                    overflow_checks >>

\* draw_reticle(): get_8bpp_character_block(5).index(1).write(tile)
draw_reticle ==
    /\ Goto("draw_reticle", "draw_tga")
    /\ reticle_tile' = TRUE
    /\ UNCHANGED << dispcnt, palram, fb_writes, hw_irq, irq_regs, cursor,
                    overflow_checks >>

\* draw_tga(&mut display): the image blit
draw_tga ==
    /\ Goto("draw_tga", "draw_text")
    /\ fb_writes' = << [ op |-> "image" ] >>
    /\ UNCHANGED << video, hw_irq, irq_regs, cursor, overflow_checks >>

\* draw_text(&mut display): the caption and its border
draw_text ==
    /\ Goto("draw_text", "set_irq_handler")
    /\ fb_writes' = Append(fb_writes, [ op |-> "caption" ])
    /\ UNCHANGED << video, hw_irq, irq_regs, cursor, overflow_checks >>

\* set_irq_handler(irq_handler)
InstallHandler ==
    /\ Goto("set_irq_handler", "dispstat")
    /\ handler' = "irq_handler"
    /\ UNCHANGED << video, fb_writes, dispstat_irq, IE, IME, irq_regs, cursor, overflow_checks >>

\* DISPSTAT.write(DisplayStatusSetting::new().with_vblank_irq_enable(true))
EnableVBlankIrq ==
    /\ Goto("dispstat", "ie")
    /\ dispstat_irq' = TRUE
    /\ UNCHANGED << video, fb_writes, handler, IE, IME, irq_regs, cursor,
                    overflow_checks >>

\* variant: every interrupt source enabled
WriteIE_all ==
    /\ Goto("ie", "ime")
    /\ IE' = IrqBits
    /\ UNCHANGED << video, fb_writes, handler, dispstat_irq, IME, irq_regs, cursor,
                    overflow_checks >>

\* IE.write(IrqFlags::new().with_vblank(true))
WriteIE ==
    /\ Goto("ie", "ime")
    /\ IE' = { VBLANK }
    /\ UNCHANGED << video, fb_writes, handler, dispstat_irq, IME, irq_regs, cursor,
                    overflow_checks >>

\* IME.write(IrqEnableSetting::IRQ_YES)
WriteIME ==
    /\ Goto("ime", "point")
    /\ IME' = TRUE
    /\ UNCHANGED << video, fb_writes, handler, dispstat_irq, IE, irq_regs, cursor,
                    overflow_checks >>

\* let mut point = Point::try_from((WIDTH, HEIGHT)).unwrap() / 2
BindPoint ==
    /\ Goto("point", "enable_display")
    /\ point' = InitialPoint
    /\ UNCHANGED << video, fb_writes, hw_irq, irq_regs, oam, last, run,
                    overflow_checks >>

\* DISPCNT.write(DISPCNT.read().with_force_vblank(false))
EnableDisplay ==
    /\ Goto("enable_display", "wait")
    /\ dispcnt' = Append(dispcnt, [ dispcnt[Len(dispcnt)] EXCEPT !.force_vblank = FALSE ])
    /\ UNCHANGED << palram, reticle_tile, fb_writes, hw_irq, irq_regs, cursor,
                    overflow_checks >>

Startup ==
    \/ SetUpDisplay \/ register_palette \/ draw_reticle \/ draw_tga \/ draw_text
    \/ InstallHandler \/ EnableVBlankIrq \/ WriteIE \/ WriteIME \/ BindPoint
    \/ EnableDisplay

(***************************************************************************)
(* gba::bios::vblank_interrupt_wait(), line 80: the BIOS call               *)
(* IntrWait(discard old flags, vblank).  It clears the vblank bit of       *)
(* BIOS_IF, halts the CPU until an enabled interrupt is requested, and     *)
(* after the handler ran returns if the vblank bit of BIOS_IF is set       *)
(* (clearing it), halting again otherwise.                                 *)
(***************************************************************************)
WaitEnter ==
    /\ Goto("wait", "halt")
    /\ BIOS_IF' = BIOS_IF \ { VBLANK }
    /\ IME' = TRUE
    /\ vblanks' = 0
    /\ prev_vblanks' = vblanks
    /\ fb_writes' = << >>
    /\ UNCHANGED << video, handler, dispstat_irq, IE, REG_IF, irq_flags, cursor,
                    overflow_checks >>

Halt ==
    /\ Goto("halt", "halted")
    /\ UNCHANGED << video, fb_writes, hw_irq, irq_regs, cursor, overflow_checks >>

WaitCheck ==
    /\ pc = "check" /\ ~IrqPending
    /\ IF VBLANK \in BIOS_IF
       THEN BIOS_IF' = BIOS_IF \ { VBLANK } /\ pc' = "body"
       ELSE BIOS_IF' = BIOS_IF /\ pc' = "halt"
    /\ UNCHANGED << video, fb_writes, hw_irq, REG_IF, irq_flags, vblanks,
                    prev_vblanks, cursor, overflow_checks >>

(***************************************************************************)
(* The loop body after the wait, lines 83-98, for one sampled input.       *)
(***************************************************************************)
\* variant: the iteration does not return to the wait
Present_no_wait(x, y, a) ==
    /\ pc' = "body"
    /\ oam' = [ s \in DOMAIN oam \cup { RETICLE_SLOT } |->
                   IF s = RETICLE_SLOT THEN ReticleAttributes(x, y) ELSE oam[s] ]
    /\ fb_writes' = IF a THEN DrawPixel(x, y) ELSE << >>

\* variant: the pixel drawn at the corner of the reticle
Present_pixel_at_corner(x, y, a) ==
    IF overflow_checks /\ Underflows(x, y)
    THEN /\ pc' = "panic"
         /\ UNCHANGED << oam, fb_writes >>
    ELSE /\ pc' = "wait"
         /\ oam' = [ s \in DOMAIN oam \cup { RETICLE_SLOT } |->
                        IF s = RETICLE_SLOT THEN ReticleAttributes(x, y) ELSE oam[s] ]
         /\ fb_writes' = IF a THEN fb_writes \o DrawPixel(x - RETICLE_OFF, y - RETICLE_OFF)
                              ELSE fb_writes

\* variant: every call takes the next free OAM slot
Present_next_slot(x, y, a) ==
    IF overflow_checks /\ Underflows(x, y)
    THEN /\ pc' = "panic"
         /\ UNCHANGED << oam, fb_writes >>
    ELSE /\ pc' = "wait"
         /\ oam' = [ s \in DOMAIN oam \cup { Cardinality(DOMAIN oam) } |->
                        IF s = Cardinality(DOMAIN oam) THEN ReticleAttributes(x, y)
                                                       ELSE oam[s] ]
         /\ fb_writes' = IF a THEN fb_writes \o DrawPixel(x, y) ELSE fb_writes

\* move_reticle(x as u16, y as u16) and the pixel draw of lines 90-95
Present(x, y, a) ==
    IF overflow_checks /\ Underflows(x, y)
    THEN \* panic: fatal!(..) and loop {} of the panic handler
         /\ pc' = "panic"
         /\ UNCHANGED << oam, fb_writes >>
    ELSE /\ pc' = "wait"
         /\ oam' = [ s \in DOMAIN oam \cup { RETICLE_SLOT } |->
                        IF s = RETICLE_SLOT THEN ReticleAttributes(x, y) ELSE oam[s] ]
         /\ fb_writes' = IF a THEN fb_writes \o DrawPixel(x, y) ELSE fb_writes

\* the all-right prefix of ticks
RunAfter(input) ==
    IF run >= 0 /\ run < MaxRun /\ input.x = 1 /\ input.y = 0 THEN run + 1 ELSE -1

\* variant: the pixel drawn after the if, on the undo path too
Body_plots_on_reject(input) ==
    LET offset == Offset(input)
        moved  == PointAdd(point, offset)
        r      == TryInto(moved)
    IN  /\ run' = RunAfter(input)
        /\ IF Matches(r)
           THEN /\ point' = moved
                /\ last' = Accepted
                /\ Present(r[1], r[2], input.a)
           ELSE /\ point' = PointSub(moved, offset)
                /\ last' = Undone(offset)
                /\ pc' = "wait"
                /\ oam' = oam
                /\ fb_writes' = IF input.a
                                THEN fb_writes \o DrawPixel(point[1], point[2])
                                ELSE fb_writes

\* variant: each axis validated on its own
Body_per_axis(input) ==
    LET offset == Offset(input)
        nx     == point[1] + offset[1]
        ny     == point[2] + offset[2]
        x      == IF nx >= 0 /\ nx < WIDTH THEN nx ELSE point[1]
        y      == IF ny >= 0 /\ ny < HEIGHT THEN ny ELSE point[2]
    IN  /\ run' = RunAfter(input)
        /\ point' = << x, y >>
        /\ last' = IF << x, y >> = << nx, ny >> THEN Accepted ELSE Undone(offset)
        /\ Present(x, y, input.a)

Body(input) ==
    LET offset == Offset(input)
        moved  == PointAdd(point, offset)
        r      == TryInto(moved)
    IN  /\ run' = RunAfter(input)
        /\ IF Matches(r)
           THEN /\ point' = moved
                /\ last' = Accepted
                /\ Present(r[1], r[2], input.a)
           ELSE /\ point' = PointSub(moved, offset)   \* undo
                /\ last' = Undone(offset)
                /\ pc' = "wait"
                /\ UNCHANGED << oam, fb_writes >>

\* variant: the loop body raises the refresh flag itself
Tick_raises_flag(keys) ==
    /\ pc = "body" /\ ~IrqPending
    /\ \E input \in keys : Body(input)
    /\ BIOS_IF' = BIOS_IF \cup { VBLANK }
    /\ UNCHANGED << video, hw_irq, REG_IF, irq_flags, vblanks, prev_vblanks,
                    overflow_checks >>

\* variant: the iteration acknowledges every request in IF itself
Tick_acks_requests(keys) ==
    /\ pc = "body" /\ ~IrqPending
    /\ \E input \in keys : Body(input)
    /\ REG_IF' = {}
    /\ UNCHANGED << video, hw_irq, BIOS_IF, irq_flags, vblanks, prev_vblanks,
                    overflow_checks >>

\* let input = read_key_input(), then the rest of the iteration
Tick(keys) ==
    /\ pc = "body" /\ ~IrqPending
    /\ \E input \in keys : Body(input)
    /\ UNCHANGED << video, hw_irq, irq_regs, overflow_checks >>

(***************************************************************************)
(* The hardware: the start of a vertical blank requests the vblank         *)
(* interrupt when DISPSTAT enables it; a requested and enabled interrupt   *)
(* runs the installed handler and wakes a halted CPU.  A deliverable       *)
(* interrupt is taken within a few cycles, before the next instruction of  *)
(* main and long before the hardware can raise a further request.          *)
(***************************************************************************)
VBlank ==
    /\ dispstat_irq
    /\ ~IrqPending
    /\ vblanks < MaxVBlanks
    /\ REG_IF' = REG_IF \cup { VBLANK }
    /\ vblanks' = vblanks + 1
    /\ UNCHANGED << pc, video, fb_writes, hw_irq, BIOS_IF, irq_flags, prev_vblanks,
                    cursor, overflow_checks >>

Irq ==
    /\ IrqPending
    /\ LET flags == IE \cap REG_IF
           after == irq_handler(flags, [ BIOS_IF |-> BIOS_IF, REG_IF |-> REG_IF ])
       IN  /\ irq_flags' = flags
           /\ BIOS_IF' = after.BIOS_IF
           /\ REG_IF' = after.REG_IF
    /\ pc' = IF pc = "halted" THEN "check" ELSE pc
    /\ UNCHANGED << video, fb_writes, hw_irq, vblanks, prev_vblanks, cursor,
                    overflow_checks >>

\* the frame is longer than an iteration: vblank starts while main is halted
VBlankWhileHalted == pc = "halted" /\ VBlank

TickAnyKey == Tick(KeyInput)

Next ==
    \/ Startup
    \/ WaitEnter \/ Halt \/ WaitCheck
    \/ TickAnyKey
    \/ VBlankWhileHalted
    \/ Irq

Spec == Init /\ [][Next]_vars

(***************************************************************************)
(* The same program with the vertical blank starting at any time (also     *)
(* while an iteration is still computing, and during start-up), with the   *)
(* game pak requesting its interrupt at any time, and with the keypad      *)
(* held to the horizontal axis.                                            *)
(***************************************************************************)
\* the game pak raises its request bit; IE never enables it
GamePakRequest ==
    /\ GAMEPAK \notin REG_IF
    /\ ~IrqPending
    /\ REG_IF' = REG_IF \cup { GAMEPAK }
    /\ UNCHANGED << pc, video, fb_writes, hw_irq, BIOS_IF, irq_flags, vblanks,
                    prev_vblanks, cursor, overflow_checks >>

RowKeys == { k \in KeyInput : k.y = 0 }

TickRowKey == Tick(RowKeys)

NextIrq ==
    \/ Startup
    \/ WaitEnter \/ Halt \/ WaitCheck
    \/ TickRowKey
    \/ VBlank
    \/ GamePakRequest
    \/ Irq

SpecIrq == Init /\ [][NextIrq]_vars

(***************************************************************************)
(* The program under fair scheduling, for what the loop does in the long   *)
(* run: the CPU always executes main's next statement, a requested and     *)
(* enabled interrupt is always delivered, and the display keeps starting   *)
(* vertical blanks while main is halted.  The keys are held to the         *)
(* vertical axis.                                                          *)
(***************************************************************************)
ColKeys == { k \in KeyInput : k.x = 0 }

TickColKey == Tick(ColKeys)

MainStep == Startup \/ WaitEnter \/ Halt \/ WaitCheck \/ TickColKey

NextLive ==
    \/ MainStep
    \/ VBlankWhileHalted
    \/ Irq

SpecLive ==
    /\ Init /\ [][NextLive]_vars
    /\ WF_vars(MainStep)
    /\ WF_vars(VBlankWhileHalted)
    /\ WF_vars(Irq)

(***************************************************************************)
(* irq_handler on its own: called once with any flags argument, from any   *)
(* contents of IF and BIOS_IF.                                             *)
(***************************************************************************)
InitHandler ==
    /\ pc = "irq_handler"
    /\ irq_flags \in SUBSET IrqBits
    /\ REG_IF \in SUBSET IrqBits
    /\ BIOS_IF \in SUBSET IrqBits
    /\ point = InitialPoint
    /\ dispcnt = << >>
    /\ palram = [ i \in 0..8 |-> "unset" ]
    /\ reticle_tile = FALSE
    /\ fb_writes = << >>
    /\ handler = "irq_handler"
    /\ dispstat_irq = TRUE
    /\ IE = { VBLANK }
    /\ IME = TRUE
    /\ oam = << >>
    /\ overflow_checks = FALSE
    /\ vblanks = 0
    /\ prev_vblanks = 0
    /\ last = NoTick
    /\ run = 0

CallHandler ==
    /\ pc = "irq_handler"
    /\ LET after == irq_handler(irq_flags, [ BIOS_IF |-> BIOS_IF, REG_IF |-> REG_IF ])
       IN  /\ BIOS_IF' = after.BIOS_IF
           /\ REG_IF' = after.REG_IF
    /\ pc' = "irq_return"
    /\ UNCHANGED << video, fb_writes, hw_irq, irq_flags, vblanks, prev_vblanks,
                    cursor, overflow_checks >>

SpecHandler == InitHandler /\ [][CallHandler]_vars

(***************************************************************************)
(* Properties.                                                             *)
(***************************************************************************)
InFrame(p) == /\ 0 <= p[1] /\ p[1] < WIDTH
              /\ 0 <= p[2] /\ p[2] < HEIGHT

\* what one tick is claimed to do to the cursor at p for the step d
Stepped(p, d) == IF InFrame(<< p[1] + d[1], p[2] + d[2] >>)
                 THEN << p[1] + d[1], p[2] + d[2] >>
                 ELSE p

\* the step of main that runs the loop body for the sampled input k
TickWith(k) == pc = "body" /\ ~IrqPending /\ Body(k)

\* C1: whenever the cursor can be observed (at every iteration boundary, and
\* in every pixel handed to the framebuffer) it lies inside the 240 x 160 frame.
C1_CursorInFrame ==
    /\ point # NoPoint => InFrame(point)
    /\ pc \in { "wait", "halt", "halted", "check", "body", "panic" } => point # NoPoint
    /\ \A i \in 1..Len(fb_writes) :
          fb_writes[i].op = "pixel" =>
             InFrame(<< fb_writes[i].x, fb_writes[i].y >>)

\* C1 witness: the cursor sits in the far corner of the frame after a step
\* towards the outside was undone.
C1_Witness ==
    /\ pc = "wait"
    /\ point = << WIDTH - 1, HEIGHT - 1 >>
    /\ last = Undone(<< 0, 1 >>)

\* C2: one tick from P with step D leaves the cursor at P+D when P+D is inside
\* the frame and at exactly P otherwise; no tick has any other result.
C2_TickMovesOrStays ==
    [][ \A k \in KeyInput : TickWith(k) => point' = Stepped(point, << k.x, k.y >>) ]_vars

\* C2 witness: a tick was undone at the right edge while another was accepted
\* before it (the cursor is away from the centre).
C2_Witness ==
    /\ last = Undone(<< 1, -1 >>)
    /\ point[1] = WIDTH - 1
    /\ point[2] = 0

\* C3: a diagonal step that would take exactly one axis out of the frame is
\* rejected as a whole: neither coordinate changes.
OneAxisLeaves(p, d) ==
    /\ d[1] # 0 /\ d[2] # 0
    /\ (p[1] + d[1] \in 0..(WIDTH - 1)) # (p[2] + d[2] \in 0..(HEIGHT - 1))

C3_DiagonalRejectedWhole ==
    [][ \A k \in KeyInput :
          (pc = "body" /\ OneAxisLeaves(point, << k.x, k.y >>) /\ TickWith(k))
             => (point' = point /\ last' = Undone(<< k.x, k.y >>) /\ UNCHANGED oam) ]_vars

\* C3 witness: the step (+1,+1) was undone at x = 239 with room left below.
C3_Witness ==
    /\ last = Undone(<< 1, 1 >>)
    /\ point[1] + 1 = WIDTH
    /\ point[2] + 1 < HEIGHT

\* C4: before the first tick the cursor is at (120, 80).
C4_InitialPoint ==
    (point # NoPoint /\ last = NoTick) => point = << 120, 80 >>

\* C4 witness: the first wait has returned and no tick has run yet.
C4_Witness ==
    pc = "body" /\ last = NoTick /\ point = << 120, 80 >>

\* C5: from the centre, after 120 ticks that all sampled (+1,0) the cursor is
\* at (239, 80); one further (+1,0) tick is rejected and the cursor stays at
\* (239, 80).  (After n <= 119 such ticks it is at (120+n, 80).)
C5_RightRun ==
    /\ (point # NoPoint /\ run >= 0 /\ run <= 119) => point = << 120 + run, 80 >>
    /\ run = 120 => point = << 239, 80 >>
    /\ run = 121 => (point = << 239, 80 >> /\ last = Undone(<< 1, 0 >>))

\* C5 witness: 121 ticks to the right have run.
C5_Witness ==
    run = 121 /\ point = << 239, 80 >> /\ pc \in { "wait", "panic" }

\* the refresh-pending flag: the vblank bit of BIOS_IF
RefreshPending == VBLANK \in BIOS_IF

\* C6: when the wait returns the refresh-pending flag reads cleared, and the
\* flag goes from cleared to set only in a step in which irq_handler runs for
\* a requested vblank interrupt; no step of main sets it.
C6_FlagClearedOnReturn ==
    [][ /\ (pc = "check" /\ pc' = "body") => ~RefreshPending'
        /\ (~RefreshPending /\ RefreshPending') =>
              /\ IrqPending
              /\ VBLANK \in REG_IF
              /\ VBLANK \in irq_flags'
              /\ pc' \in { pc, "check" }
              /\ UNCHANGED << point, oam, fb_writes, last, dispcnt >> ]_vars

\* C6 witness: an iteration has run, the wait has returned again on the first
\* vblank after it was entered, and the flag reads cleared.
C6_Witness ==
    pc = "body" /\ last = Accepted /\ vblanks = 1 /\ ~RefreshPending

\* C7: an iteration starts only when the wait returns, and the wait returns
\* only after a vblank that started after the wait was entered; an iteration is
\* followed by the wait, never by another iteration; vblanks that started before
\* the wait was entered leave nothing pending once main halts.
C7_OneIterationPerRefresh ==
    [][ /\ (pc # "body" /\ pc' = "body") =>
              (pc = "check" /\ vblanks >= 1 /\ RefreshPending)
        /\ (pc = "body" /\ pc' = "body") =>
              UNCHANGED << point, oam, fb_writes, last, run >>
        /\ (pc' \in { "halt", "halted" } /\ vblanks' = 0) => ~RefreshPending' ]_vars

\* C7 witness: three vblanks started between two entries to the wait (one woke
\* the iteration, two more came while it was computing) and main is halted
\* again with none of them pending.
C7_Witness ==
    /\ pc = "halted"
    /\ last # NoTick
    /\ prev_vblanks >= 3
    /\ vblanks = 0
    /\ ~RefreshPending

\* C8: main leaves the halt only through an interrupt for which irq_handler
\* saw the vblank bit; a request of another source alone leaves main halted and
\* the wait returns as soon as the handler has run for a vblank: a requested
\* vblank is deliverable while main is halted, and the check after a wake-up
\* never sends main back to the halt.
C8_ReturnsOnlyOnVBlank ==
    [][ /\ (pc = "halted" /\ pc' # "halted") =>
              (pc' = "check" /\ VBLANK \in REG_IF /\ VBLANK \in irq_flags')
        /\ (pc = "halted" /\ VBLANK \in REG_IF) => IrqPending
        /\ pc = "check" => pc' \in { "check", "body" } ]_vars

\* C8 witness: the game pak has requested its interrupt while main is halted
\* in the wait, no vblank has started since, and main is still halted.
C8_Witness ==
    pc = "halted" /\ GAMEPAK \in REG_IF /\ VBLANK \notin REG_IF /\ vblanks = 0

\* C9: called with the vblank bit set in flags, irq_handler leaves the vblank
\* bit set in BIOS_IF and no longer requested in IF; called without it, it
\* leaves both registers as they were.
C9_TwoStageAck ==
    [][ (pc = "irq_handler" /\ pc' = "irq_return") =>
           IF VBLANK \in irq_flags
           THEN /\ VBLANK \in BIOS_IF'
                /\ VBLANK \notin REG_IF'
                /\ BIOS_IF \subseteq BIOS_IF'
           ELSE BIOS_IF' = BIOS_IF /\ REG_IF' = REG_IF ]_vars

\* C9 witness: the handler has returned from a vblank interrupt whose request
\* was pending in IF, with the flag raised and the request gone.
C9_Witness ==
    /\ pc = "irq_return"
    /\ irq_flags = { VBLANK }
    /\ VBLANK \in BIOS_IF
    /\ REG_IF = {}

\* where the hardware shows a sprite: column and row fields wrap
ScreenCol(col) == IF col >= COL_MOD \div 2 THEN col - COL_MOD ELSE col
ScreenRow(row) == IF row >= HEIGHT THEN row - ROW_MOD ELSE row

\* C10 (as claimed): after a tick that accepted the position P, OAM slot 0
\* holds the reticle with its top-left corner at (P.x-3, P.y-3), tile 514,
\* 8bpp, also where P.x < 3 or P.y < 3.
C10_OverlayCentredOnCursor ==
    last = Accepted =>
       /\ DOMAIN oam = { 0 }
       /\ ScreenCol(oam[0].col) = point[1] - 3
       /\ ScreenRow(oam[0].row) = point[2] - 3
       /\ oam[0].tile_id = 514
       /\ oam[0].is_8bpp

\* C11: a tick that presents the position the tick before it presented (the
\* second call of move_reticle with the same P) leaves the OAM as the first
\* call left it, and no tick writes any OAM slot other than slot 0.
C11_PresentIdempotent ==
    [][ /\ DOMAIN oam' \subseteq { 0 }
        /\ (pc = "body" /\ pc' = "wait" /\ last = Accepted /\ last' = Accepted
               /\ point' = point)
             => (oam' = oam /\ DOMAIN oam' = { 0 }) ]_vars

\* C11 witness: the zero step has presented the reticle at the centre, where
\* the cursor already was; every further zero step presents the same position
\* again and ends in this same state, with slot 0 the only slot written.
C11_Witness ==
    /\ pc = "wait"
    /\ last = Accepted
    /\ point = << 120, 80 >>
    /\ run = -1
    /\ DOMAIN oam = { 0 }
    /\ oam[0].tile_id = 514

\* the tick for the input k commits the position (50,50) with A asserted
PlotsAt5050(k) ==
    /\ pc = "body" /\ k.a
    /\ point[1] + k.x = 50 /\ point[2] + k.y = 50
    /\ TickWith(k)

\* C12 (as claimed): a tick with A asserted that commits (50,50) makes exactly
\* one framebuffer write, of the colour RED, at (50,50).
C12_PlotsRed ==
    [][ \A k \in KeyInput :
          PlotsAt5050(k) =>
             fb_writes' = << [ op |-> "pixel", x |-> 50, y |-> 50, colour |-> "RED" ] >> ]_vars

\* C12 (amended): a tick with A asserted that commits (50,50) makes exactly
\* one framebuffer write, of the colour BLUE, at (50,50), and none elsewhere.
C12_PlotsBlue ==
    [][ \A k \in KeyInput :
          PlotsAt5050(k) =>
             fb_writes' = << [ op |-> "pixel", x |-> 50, y |-> 50, colour |-> "BLUE" ] >> ]_vars

\* C12 witness: the iteration that committed (50,50) with A asserted has
\* ended, and its only framebuffer write is the one at (50,50).
C12_Witness ==
    /\ pc = "wait"
    /\ point = << 50, 50 >>
    /\ last = Accepted
    /\ Len(fb_writes) = 1
    /\ fb_writes[1].x = 50 /\ fb_writes[1].y = 50

\* the colour table after register_palette, index 0 never assigned
NamedColours ==
    << "BLACK", "RED", "GREEN", "BLUE", "YELLOW", "MAGENTA", "CYAN", "WHITE" >>

Registered == [ i \in 0..8 |-> IF i = 0 THEN "unset" ELSE NamedColours[i] ]

\* C13: index 0 of the colour table is never written; register_palette writes
\* indices 1..8 with BLACK, RED, GREEN, BLUE, YELLOW, MAGENTA, CYAN, WHITE in
\* that order; it runs once, before the loop: the table is empty up to its
\* call, complete from then on, no other step changes it, and main never
\* comes back to the call.
C13_PaletteOnce ==
    /\ [](/\ palram[0] = "unset"
          /\ pc \in { "dispcnt", "register_palette" }
                => palram = [ i \in 0..8 |-> "unset" ]
          /\ pc \notin { "dispcnt", "register_palette" }
                => palram = Registered)
    /\ [][ /\ (palram' # palram) => (pc = "register_palette" /\ pc' = "draw_reticle")
           /\ (pc' = "register_palette") => (pc \in { "dispcnt", "register_palette" })
           /\ (pc' = "dispcnt") => (pc = "dispcnt") ]_vars

\* C13 witness: the loop runs (a tick has been accepted) with the eight
\* colours in place and index 0 untouched.
C13_Witness ==
    /\ pc = "body"
    /\ last = Accepted
    /\ palram[0] = "unset"
    /\ palram[1] = "BLACK"
    /\ palram[8] = "WHITE"

\* the statements of main between the DISPCNT set-up and the write that
\* clears forced blanking, and the statements of the loop
OneShotPcs == { "register_palette", "draw_reticle", "draw_tga", "draw_text" }
BlankedPcs == OneShotPcs \cup { "set_irq_handler", "dispstat", "ie", "ime", "point",
                                "enable_display" }
LoopPcs    == { "wait", "halt", "halted", "check", "body", "panic" }

\* C14: DISPCNT is first written with forced blanking on; it stays on through
\* palette registration, reticle tile, image blit and caption; DISPCNT is
\* written once more, clearing it, after all four are done and before the
\* first iteration of the loop, and never again.
C14_BlankedStartup ==
    /\ [](/\ pc = "dispcnt" => dispcnt = << >>
          /\ pc \in BlankedPcs =>
                (Len(dispcnt) = 1 /\ dispcnt[1].force_vblank /\ last = NoTick)
          /\ pc \in LoopPcs =>
                (/\ Len(dispcnt) = 2
                 /\ dispcnt[1].force_vblank /\ ~dispcnt[2].force_vblank
                 /\ palram[1] # "unset" /\ reticle_tile)
          /\ pc = "enable_display" =>
                fb_writes = << [ op |-> "image" ], [ op |-> "caption" ] >>
          /\ last # NoTick => pc \in LoopPcs)
    /\ [][ /\ (dispcnt' # dispcnt) => (pc \in { "dispcnt", "enable_display" })
           /\ (pc \in OneShotPcs /\ pc' # pc) =>
                 (pc' \in BlankedPcs /\ UNCHANGED dispcnt
                    /\ << palram, reticle_tile, fb_writes >>
                          # << palram', reticle_tile', fb_writes' >>) ]_vars

\* C14 witness: the first iteration is about to run its body, forced blanking
\* was on in the first DISPCNT write and is off since the second.
C14_Witness ==
    /\ pc = "body"
    /\ last = NoTick
    /\ Len(dispcnt) = 2
    /\ dispcnt[1].force_vblank
    /\ ~dispcnt[2].force_vblank

\* C15: with interrupts arriving at any point of the loop, (1) the handler
\* changes none of cursor, OAM, framebuffer and colour table; (2) IF and
\* BIOS_IF change only in the handler, in the wait (BIOS_IF alone) and when
\* the hardware raises a request (IF alone, main standing still); (3) a tick
\* leaves IF and BIOS_IF alone and its result is the one its input and the
\* cursor determine, whatever interrupts were handled before it.
C15_DisjointFootprints ==
    [][ /\ IrqPending => UNCHANGED << point, oam, fb_writes, palram, last, run >>
        /\ (BIOS_IF' # BIOS_IF \/ REG_IF' # REG_IF) =>
              \/ IrqPending
              \/ pc \in { "wait", "check" } /\ pc' # pc /\ REG_IF' = REG_IF
              \/ pc' = pc /\ BIOS_IF' = BIOS_IF /\ REG_IF \subseteq REG_IF'
        /\ \A k \in KeyInput :
              TickWith(k) =>
                 /\ UNCHANGED << REG_IF, BIOS_IF >>
                 /\ point' = Stepped(point, << k.x, k.y >>)
                 /\ \/ fb_writes' = << >>
                    \/ /\ k.a
                       /\ fb_writes' = << [ op |-> "pixel", x |-> point'[1],
                                            y |-> point'[2], colour |-> "BLUE" ] >>
                 /\ \/ oam' = oam
                    \/ /\ DOMAIN oam' = { 0 }
                       /\ ScreenCol(oam'[0].col) = point'[1] - 3
                       /\ ScreenRow(oam'[0].row) = point'[2] - 3 ]_vars

\* C15 witness: a vblank interrupt was handled after a tick had moved the
\* cursor and before main reached the wait; the request is acknowledged, the
\* flag is raised, and the cursor and the OAM record are the tick's.
C15_Witness ==
    /\ pc = "wait"
    /\ last = Accepted
    /\ point = << 121, 80 >>
    /\ RefreshPending
    /\ VBLANK \notin REG_IF
    /\ oam[0].col = 118

\* C16: a tick whose candidate position is outside the frame changes neither
\* the cursor nor the OAM nor the framebuffer, with the A button asserted or
\* not, and takes main to the next wait (not to the panic handler).
C16_RejectedTickIsNoOp ==
    [][ \A k \in KeyInput :
          (pc = "body" /\ ~InFrame(<< point[1] + k.x, point[2] + k.y >>) /\ TickWith(k))
             => /\ point' = point
                /\ oam' = oam
                /\ fb_writes' = fb_writes
                /\ pc' = "wait" ]_vars

\* C16 witness: a step down and to the left was rejected on the bottom row,
\* away from the corner, and main has gone on into the next wait.
C16_Witness ==
    /\ pc = "halted"
    /\ last = Undone(<< -1, 1 >>)
    /\ point[2] = HEIGHT - 1
    /\ point[1] > 0

\* C17 (as claimed): every tick with A asserted whose step is accepted, the
\* zero step included, adds exactly one pixel to the framebuffer, at the
\* position the tick commits; every other tick leaves the framebuffer as it is.
C17_OnePixelPerHeldTick ==
    [][ \A k \in KeyInput :
          TickWith(k) =>
             IF k.a /\ InFrame(<< point[1] + k.x, point[2] + k.y >>)
             THEN /\ point' = << point[1] + k.x, point[2] + k.y >>
                  /\ Len(fb_writes') = Len(fb_writes) + 1
                  /\ SubSeq(fb_writes', 1, Len(fb_writes)) = fb_writes
                  /\ fb_writes'[Len(fb_writes')].op = "pixel"
                  /\ fb_writes'[Len(fb_writes')].x = point'[1]
                  /\ fb_writes'[Len(fb_writes')].y = point'[2]
             ELSE fb_writes' = fb_writes ]_vars

\* C18 (as claimed): every position the loop accepts, and so hands to
\* move_reticle, has x >= 3 and y >= 3, so that neither x - 3 nor y - 3 goes
\* below zero.
C18_NoUnderflow ==
    last = Accepted => (point[1] - 3 >= 0 /\ point[2] - 3 >= 0)

\* C19 (as claimed): in the loop the handler is installed and the vblank
\* interrupt is enabled in DISPSTAT, IE and IME; with the display starting
\* vertical blanks for ever, every call of the wait returns, and the loop runs
\* iteration after iteration without end.
C19_LoopRunsForEver ==
    /\ [](pc \in LoopPcs =>
            (handler = "irq_handler" /\ dispstat_irq /\ VBLANK \in IE /\ IME))
    /\ (pc = "wait") ~> (pc = "body")
    /\ []<>(pc = "body")

====
